---- MODULE Spec2Model ----
(***************************************************************************)
(* Model of the concurrent module-graph lint pipeline of oxc:              *)
(*   crates/oxc_linter/src/service.rs      (LintService / Runtime)         *)
(*   crates/oxc_diagnostics/src/service.rs (DiagnosticService)             *)
(*                                                                         *)
(* A path is a sequence of components.  A task is one call of              *)
(* Runtime::process_path; its pc is its position in that call.  Every      *)
(* call runs as its own logical thread of the rayon pool; the caller of    *)
(* a fan-out continues when all the calls it made have returned.           *)
(* The module map is keyed by the path as spelled by the caller: the       *)
(* entry path as given, an import target as its cwd-stripped resolution.   *)
(***************************************************************************)
EXTENDS Integers, Sequences, FiniteSets, TLC

VARIABLES
    entries,          \* the entry paths handed to run_path
    module_requests,  \* file contents: file -> specifiers it imports
    syntax_errors,    \* file contents: files the parser reports errors for
    semantic_errors,  \* file contents: files the semantic build reports errors for
    fix,              \* linter.options().fix
    disk,             \* file -> the text it holds ("original" or "fixed")
    tasks,            \* sequence of process_path calls (records)
    module_map,       \* Runtime.module_map: path -> Arc<ModuleRecord>
    cache_state,      \* Runtime.cache_state: path -> CacheStateEntry
    cache_state_lock, \* holder of the Mutex around Runtime.cache_state (0 = free)
    lock,             \* holder of each entry's Mutex (0 = free)
    waiters,          \* tasks asleep on each entry's Condvar
    next_arc,         \* identity of the next Arc::new(module_record)
    number_of_files_in_node_modules,
    channel,          \* batches sent on tx_error and not yet received
    parses,           \* history: path -> number of Parser::parse runs
    writes,           \* history: path -> number of fs::write calls
    semantics,        \* history: path -> number of SemanticBuilder builds
    lints,            \* history: path -> number of Linter::run runs
    sent,             \* history: every batch ever sent, in order
    senders,          \* live DiagnosticSender handles exist
    quiet,            \* DiagnosticService.quiet
    max_warnings,     \* DiagnosticService.max_warnings (<<>> = None, <<n>> = Some(n))
    warnings_count,   \* DiagnosticService.warnings_count
    errors_count,     \* DiagnosticService.errors_count
    dpc,              \* position of DiagnosticService::run
    cur,              \* the batch being iterated: [path, diagnostics]
    output,           \* the String `output` of the current batch
    written,          \* everything written to buf_writer, one entry per batch
    log,              \* history: one record per diagnostic taken from a batch
    twin,             \* counters of a second service built with_quiet(!quiet)
                      \* and fed the same batches with the same renderings
    result            \* LintResult built after DiagnosticService::run returned

pvars == <<entries, module_requests, syntax_errors, semantic_errors, fix, disk,
           writes, tasks, module_map, cache_state, lock, waiters, next_arc,
           cache_state_lock, number_of_files_in_node_modules, parses, semantics,
           lints, sent>>
dvars == <<senders, quiet, max_warnings, warnings_count, errors_count, dpc, cur,
           output, written, log, twin, result>>
vars == <<pvars, channel, dvars>>
inputs == <<entries, module_requests, syntax_errors, semantic_errors, fix>>

(***************************************************************************)
(* Paths                                                                   *)
(***************************************************************************)
Cwd == <<"/", "cwd">>

A == <<"a.js">>
B == <<"b.js">>
C == <<"c.js">>
M == <<"node_modules", "m.js">>
X == <<"foo.asdf">>

\* The files on disk, by their cwd-relative canonical path.
Files == {A, B, C, M, X}

\* Path::extension of the last component.
Extension(path) ==
    LET name == path[Len(path)]
    IN  IF name \in {"a.js", "b.js", "c.js", "m.js"} THEN "js" ELSE "asdf"

VALID_EXTENSIONS == {"js", "mjs", "cjs", "jsx", "ts", "mts", "cts", "tsx"}

\* SourceType::from_path(path).is_ok()
SourceTypeFromPath(path) == Extension(path) \in VALID_EXTENSIONS

IsAbsolute(path) == Len(path) > 0 /\ path[1] = "/"

\* Path::canonicalize: the absolute path of the file
Canonicalize(path) == IF IsAbsolute(path) THEN path ELSE Cwd \o path

HasPrefix(path, prefix) ==
    Len(path) >= Len(prefix) /\ SubSeq(path, 1, Len(prefix)) = prefix

\* Path::strip_prefix(&cwd): <<stripped>> when Ok, <<>> when Err
StripPrefix(path, prefix) ==
    IF HasPrefix(path, prefix)
    THEN <<SubSeq(path, Len(prefix) + 1, Len(path))>>
    ELSE <<>>

InNodeModulesByFileName(path) == path[Len(path)] = "node_modules"

\* path.components().any(|p| p.as_os_str() == "node_modules")
InNodeModules(path) == \E i \in 1..Len(path) : path[i] = "node_modules"

\* The file a spelled path names.
FileOf(path) == StripPrefix(Canonicalize(path), Cwd)[1]

\* Specifiers: "./x"-style specifiers are written as the file they name;
\* Bare is a package specifier with no on-disk resolution.
Bare == <<"pkg">>
Specifiers == Files \cup {Bare}

\* Resolver::resolve(dir, specifier).ok(): <<absolute path>> or <<>>
Resolve(dir, specifier) ==
    IF specifier \in Files /\ HasPrefix(dir, Cwd) THEN <<Cwd \o specifier>> ELSE <<>>

\* canonicalized.parent()
Parent(path) == SubSeq(path, 1, Len(path) - 1)

Requests(a, b, c, m) ==
    [f \in Files |-> IF f = A THEN a ELSE IF f = B THEN b ELSE IF f = C THEN c
                     ELSE IF f = M THEN m ELSE {}]

(***************************************************************************)
(* Diagnostics                                                             *)
(***************************************************************************)
Severities == {"Warning", "Error", "None", "Advice"}

\* Message::new(err, None) for each parser error: an Error without severity
ParseErrors(path) ==
    <<[error |-> [severity |-> "None", file |-> FileOf(path), origin |-> "parse"],
       fix |-> FALSE]>>

\* Message::new(err, None) for each error of the semantic build
SemanticErrors(path) ==
    <<[error |-> [severity |-> "None", file |-> FileOf(path), origin |-> "semantic"],
       fix |-> FALSE]>>

\* Linter::run: the rule engine's messages for a file.  c.js is clean, b.js
\* holds one violation with a fix, every other file one without a fix.
LinterRun(path, source_text) ==
    LET file == FileOf(path) IN
    IF file = C \/ (file = B /\ source_text = "fixed")
    THEN <<>>
    ELSE <<[error |-> [severity |-> "Warning", file |-> file, origin |-> "lint"],
            fix |-> (file = B)]>>

\* Fixer::fix: the messages that remain are those without a fix
RECURSIVE FixerMessages(_)
FixerMessages(messages) ==
    IF messages = <<>> THEN <<>>
    ELSE IF messages[1].fix THEN FixerMessages(Tail(messages))
    ELSE <<messages[1]>> \o FixerMessages(Tail(messages))

\* DiagnosticService::wrap_diagnostics: the DiagnosticTuple of a file
WrapDiagnostics(path, diagnostics) == [path |-> path, diagnostics |-> diagnostics]

(***************************************************************************)
(* CacheStateEntry                                                         *)
(***************************************************************************)
ReadyToConstruct == <<"ReadyToConstruct">>
PendingStore(i) == <<"PendingStore", i>>
IsPendingStore(state) == state[1] = "PendingStore"

Bump(f, k) == IF k \in DOMAIN f THEN [f EXCEPT ![k] = @ + 1] ELSE (k :> 1) @@ f
Count(f, k) == IF k \in DOMAIN f THEN f[k] ELSE 0

TaskIds == 1..Len(tasks)
Children(t) == {u \in TaskIds : tasks[u].parent = t}

NewTask(path, parent) ==
    [path |-> path, parent |-> parent, pc |-> "process_path", todo |-> {},
     source_text |-> "", messages |-> <<>>, call |-> "process_path"]

\* A call of LintService::run_source (line 63) for the path
NewSourceTask(path) ==
    [NewTask(path, 0) EXCEPT !.pc = "run_source", !.call = "run_source"]

NotifyNone(path, ts, ts2, ws2) == ts2 = ts /\ ws2 = waiters

\* Condvar::notify_one on the entry of `path`, applied to a task sequence ts:
\* one sleeping task (if any) is made runnable; it must re-acquire the lock
\* and re-evaluate the wait_while condition.
NotifyOne(path, ts, ts2, ws2) ==
    IF waiters[path] = {}
    THEN ts2 = ts /\ ws2 = waiters
    ELSE \E w \in waiters[path] :
            /\ ts2 = [ts EXCEPT ![w].pc = "init_wait"]
            /\ ws2 = [waiters EXCEPT ![path] = @ \ {w}]

(***************************************************************************)
(* Runtime::process_path                                                   *)
(***************************************************************************)
EarlyReturnWhenCached(path) == path \in DOMAIN module_map

EarlyReturnWhenUnsupported(path) == ~SourceTypeFromPath(path)

\* process_path lines 103-107: the two early returns
EarlyReturn(path) ==
    \/ ~SourceTypeFromPath(path)
    \/ path \in DOMAIN module_map

\* lines 103-107: unsupported source type or already in the module map
ProcessPath(t) ==
    /\ tasks[t].pc = "process_path"
    /\ tasks' = [tasks EXCEPT ![t].pc =
                    IF EarlyReturn(tasks[t].path) THEN "done" ELSE "init_entry"]
    /\ UNCHANGED <<inputs, module_map, cache_state, lock, waiters, next_arc,
                   cache_state_lock, number_of_files_in_node_modules, parses,
                   semantics, lints, sent, channel, disk, writes, dvars>>

StateMapGuardKept(t) == t

\* init_cache_state, lines 195-200: the holder of the map's Mutex once the
\* block that binds (lock, cvar) has ended: the guard state_map is dropped
StateMapGuard(t) == 0

\* init_cache_state, lines 195-200: get or create the path's (Mutex, Condvar)
\* under the map's Mutex
InitEntry(t) ==
    LET path == tasks[t].path IN
    /\ tasks[t].pc = "init_entry"
    /\ cache_state_lock = 0
    /\ cache_state_lock' = StateMapGuard(t)
    /\ IF path \in DOMAIN cache_state
       THEN UNCHANGED <<cache_state, lock, waiters>>
       ELSE /\ cache_state' = (path :> ReadyToConstruct) @@ cache_state
            /\ lock' = (path :> 0) @@ lock
            /\ waiters' = (path :> {}) @@ waiters
    /\ tasks' = [tasks EXCEPT ![t].pc = "init_wait"]
    /\ UNCHANGED <<inputs, module_map, next_arc, number_of_files_in_node_modules,
                   parses, semantics, lints, sent, channel, disk, writes, dvars>>

WaitWhileNever(state) == FALSE

\* init_cache_state, lines 203-205: the condition of wait_while
WaitWhile(state) == IsPendingStore(state)

\* init_cache_state, lines 202-206: lock, then wait while PendingStore(_)
InitWait(t) ==
    LET path == tasks[t].path IN
    /\ tasks[t].pc = "init_wait"
    /\ lock[path] = 0
    /\ IF WaitWhile(cache_state[path])
       THEN /\ tasks' = [tasks EXCEPT ![t].pc = "asleep"]
            /\ waiters' = [waiters EXCEPT ![path] = @ \cup {t}]
            /\ UNCHANGED lock
       ELSE /\ tasks' = [tasks EXCEPT ![t].pc = "init_store"]
            /\ lock' = [lock EXCEPT ![path] = t]
            /\ UNCHANGED waiters
    /\ UNCHANGED <<inputs, module_map, cache_state, next_arc, cache_state_lock,
                   number_of_files_in_node_modules, parses, semantics, lints, sent,
                   channel, disk, writes, dvars>>

\* A condition variable may wake a sleeper without any notification.
SpuriousWakeup(t) ==
    LET path == tasks[t].path IN
    /\ tasks[t].pc = "asleep"
    /\ tasks' = [tasks EXCEPT ![t].pc = "init_wait"]
    /\ waiters' = [waiters EXCEPT ![path] = @ \ {t}]
    /\ UNCHANGED <<inputs, module_map, cache_state, lock, next_arc, cache_state_lock,
                   number_of_files_in_node_modules, parses, semantics, lints, sent,
                   channel, disk, writes, dvars>>

InitStoreStateUnchecked(path, state) ==
    PendingStore((IF IsPendingStore(state) THEN state[2] ELSE 0) + 1)

\* init_cache_state, lines 208-216, with the entry's lock held
InitStoreState(path, state) ==
    IF path \notin DOMAIN module_map
    THEN PendingStore((IF IsPendingStore(state) THEN state[2] ELSE 0) + 1)
    ELSE state

AfterInitRecheck(path) == IF path \in DOMAIN module_map THEN "done" ELSE "parse"

\* process_path lines 109-116: init_cache_state returns nothing, the read and
\* process_source follow whatever the module map holds by then
AfterInit(path) == "parse"

InitStore(t) ==
    LET path == tasks[t].path
        state == InitStoreState(path, cache_state[path])
        ts == [tasks EXCEPT ![t].pc = AfterInit(path)]
    IN
    /\ tasks[t].pc = "init_store"
    /\ cache_state' = [cache_state EXCEPT ![path] = state]
    /\ cache_state_lock' = IF cache_state_lock = t THEN 0 ELSE cache_state_lock
    /\ IF state = ReadyToConstruct
       THEN NotifyOne(path, ts, tasks', waiters')
       ELSE tasks' = ts /\ waiters' = waiters
    /\ lock' = [lock EXCEPT ![path] = 0]
    /\ UNCHANGED <<inputs, module_map, next_arc, number_of_files_in_node_modules,
                   parses, semantics, lints, sent, channel, disk, writes, dvars>>

AfterParseErrorsUpdate == "update"

\* process_source line 145: the parse errors are returned to process_path
\* at once, update_cache_state (line 153) is not reached
AfterParseErrors == "send"

AfterInsertFanout == "fanout"

\* process_source line 153: update_cache_state follows the insert and
\* precedes the fan-out of lines 160-170
AfterInsert == "update"

ParseErrorsIgnored(file) == FALSE

\* process_source line 144: !ret.errors.is_empty()
HasParseErrors(file) == file \in syntax_errors

SemanticErrorsIgnored(file) == FALSE

\* process_source line 185: !semantic_ret.errors.is_empty()
HasSemanticErrors(file) == file \in semantic_errors

\* process_path lines 111-116 and process_source lines 140-151: read the file,
\* parse it; on parse errors return them, else build and insert the descriptor
Parse(t) ==
    LET path == tasks[t].path
        file == FileOf(path)
    IN
    /\ tasks[t].pc = "parse"
    /\ parses' = Bump(parses, path)
    /\ IF HasParseErrors(file)
       THEN /\ tasks' = [tasks EXCEPT ![t].pc = AfterParseErrors,
                                      ![t].source_text = disk[file],
                                      ![t].messages = ParseErrors(path)]
            /\ UNCHANGED <<module_map, next_arc>>
       ELSE /\ module_map' = (path :> [arc |-> next_arc,
                                       module_requests |-> module_requests[file]])
                             @@ module_map
            /\ next_arc' = next_arc + 1
            /\ tasks' = [tasks EXCEPT ![t].pc = AfterInsert,
                                      ![t].source_text = disk[file],
                                      ![t].todo = module_requests[file]]
    /\ UNCHANGED <<inputs, cache_state, lock, waiters, cache_state_lock,
                   number_of_files_in_node_modules, semantics, lints, sent, channel,
                   disk, writes, dvars>>

UpdateStateKept(state) == state

\* update_cache_state, lines 227-237
UpdateState(state) ==
    IF IsPendingStore(state)
    THEN IF state[2] - 1 = 0 THEN ReadyToConstruct ELSE PendingStore(state[2] - 1)
    ELSE state

\* update_cache_state, lines 218-238 (process_source line 153)
UpdateCacheState(t) ==
    LET path == tasks[t].path
        state == cache_state[path]
        ts == [tasks EXCEPT ![t].pc = "fanout"]
    IN
    /\ tasks[t].pc = "update"
    /\ cache_state_lock = 0
    /\ path \in DOMAIN cache_state
    /\ lock[path] = 0
    /\ UNCHANGED cache_state_lock
    /\ cache_state' = [cache_state EXCEPT ![path] = UpdateState(state)]
    /\ IF IsPendingStore(state) /\ UpdateState(state) = ReadyToConstruct
       THEN NotifyOne(path, ts, tasks', waiters')
       ELSE tasks' = ts /\ waiters' = waiters
    /\ UNCHANGED <<inputs, module_map, lock, next_arc, number_of_files_in_node_modules,
                   parses, semantics, lints, sent, channel, disk, writes, dvars>>

\* process_source lines 155-170, one module request: resolve it, drop it when
\* unresolved or when the resolved path is a key of the module map, else call
\* process_path on the cwd-stripped path
Fanout(t, specifier) ==
    LET path == tasks[t].path
        dir == Parent(Canonicalize(path))
        resolution == Resolve(dir, specifier)
        ts == [tasks EXCEPT ![t].todo = @ \ {specifier}]
    IN
    /\ tasks[t].pc = "fanout"
    /\ specifier \in tasks[t].todo
    /\ IF resolution = <<>>
       THEN tasks' = ts
       ELSE IF resolution[1] \in DOMAIN module_map
       THEN tasks' = ts
       ELSE tasks' = Append(ts, NewTask(StripPrefix(resolution[1], Cwd)[1], t))
    /\ UNCHANGED <<inputs, module_map, cache_state, lock, waiters, next_arc,
                   cache_state_lock, number_of_files_in_node_modules, parses,
                   semantics, lints, sent, channel, disk, writes, dvars>>

JoinedWithoutWaiting(t) == TRUE

JoinedWithFirst(t) == Children(t) = {} \/ \E u \in Children(t) : tasks[u].pc = "done"

\* for_each_with returns, line 170: every process_path call it made returned
Joined(t) == \A u \in Children(t) : tasks[u].pc = "done"

\* process_source lines 172-190, once every process_path call of the fan-out
\* has returned: the node_modules short-circuit, else semantic build and lint
Analyze(t) ==
    LET path == tasks[t].path IN
    /\ tasks[t].pc = "fanout"
    /\ tasks[t].todo = {}
    /\ Joined(t)
    /\ IF InNodeModules(path)
       THEN /\ number_of_files_in_node_modules' = number_of_files_in_node_modules + 1
            /\ tasks' = [tasks EXCEPT ![t].pc = "send", ![t].messages = <<>>]
            /\ UNCHANGED <<semantics, lints>>
       ELSE IF HasSemanticErrors(FileOf(path))
       THEN /\ semantics' = Bump(semantics, path)
            /\ tasks' = [tasks EXCEPT ![t].pc = "send",
                            ![t].messages = SemanticErrors(path)]
            /\ UNCHANGED <<lints, number_of_files_in_node_modules>>
       ELSE /\ semantics' = Bump(semantics, path)
            /\ lints' = Bump(lints, path)
            /\ tasks' = [tasks EXCEPT ![t].pc = "send",
                            ![t].messages = LinterRun(path, tasks[t].source_text)]
            /\ UNCHANGED number_of_files_in_node_modules
    /\ UNCHANGED <<inputs, module_map, cache_state, cache_state_lock, lock, waiters,
                   next_arc, parses, sent, channel, disk, writes, dvars>>

\* process_path lines 118-128: apply fixes, send the remaining messages
Send(t) ==
    LET path == tasks[t].path
        messages == IF fix THEN FixerMessages(tasks[t].messages) ELSE tasks[t].messages
        errors == [i \in 1..Len(messages) |-> messages[i].error]
        diagnostics == WrapDiagnostics(path, errors)
    IN
    /\ tasks[t].pc = "send"
    /\ tasks[t].call = "process_path"
    /\ IF fix
       THEN /\ disk' = [disk EXCEPT ![FileOf(path)] =
                          IF tasks[t].messages # messages THEN "fixed"
                          ELSE tasks[t].source_text]
            /\ writes' = Bump(writes, path)
       ELSE UNCHANGED <<disk, writes>>
    /\ IF messages # <<>>
       THEN channel' = Append(channel, diagnostics) /\ sent' = Append(sent, diagnostics)
       ELSE UNCHANGED <<channel, sent>>
    /\ tasks' = [tasks EXCEPT ![t].pc = "done", ![t].messages = messages]
    /\ UNCHANGED <<inputs, module_map, cache_state, lock, waiters, next_arc,
                   cache_state_lock, number_of_files_in_node_modules, parses,
                   semantics, lints, dvars>>

RunSourceWithoutInit == "parse"

\* run_source line 72: init_cache_state(path) precedes process_source
RunSourceInit == "init_entry"

\* run_source, lines 71-72: an unsupported extension returns vec![]; otherwise
\* the gate is entered; the module map is not consulted
RunSource(t) ==
    /\ tasks[t].pc = "run_source"
    /\ tasks' = [tasks EXCEPT ![t].pc =
                    IF SourceTypeFromPath(tasks[t].path) THEN RunSourceInit ELSE "done"]
    /\ UNCHANGED <<inputs, module_map, cache_state, lock, waiters, next_arc,
                   cache_state_lock, number_of_files_in_node_modules, parses,
                   semantics, lints, sent, channel, disk, writes, dvars>>

\* run_source, lines 73-80: the messages of process_source are returned to
\* the caller: no fix is written and nothing is sent
ReturnSource(t) ==
    /\ tasks[t].pc = "send"
    /\ tasks[t].call = "run_source"
    /\ tasks' = [tasks EXCEPT ![t].pc = "done"]
    /\ UNCHANGED <<inputs, module_map, cache_state, lock, waiters, next_arc,
                   cache_state_lock, number_of_files_in_node_modules, parses,
                   semantics, lints, sent, channel, disk, writes, dvars>>

(***************************************************************************)
(* DiagnosticService                                                       *)
(***************************************************************************)
IsWarningOnAdvice(severity) == severity = "Advice"

\* run, line 95
IsWarning(severity) == severity = "Warning"

IsErrorUnlessWarning(severity) == severity # "Warning"

\* run, line 96: severity.is_none() || severity == Some(Severity::Error)
IsError(severity) == severity = "None" \/ severity = "Error"

\* run, lines 106-114: the `continue`s taken for a counted diagnostic by a
\* service whose quiet field is q, with count the value warnings_count()
\* returns after the fetch_add of line 99
SuppressedIn(q, severity, count) ==
    /\ IsWarning(severity) \/ IsError(severity)
    /\ \/ q
       \/ max_warnings # <<>> /\ count > max_warnings[1]

Suppressed(severity, count) == SuppressedIn(quiet, severity, count)

\* one iteration of the for loop, lines 93-127, in the second service; skip
\* records that it left the loop of the current batch through the `break`
TwinIteration(tw, diagnostic, long) ==
    LET severity == diagnostic.severity
        count == tw.warnings_count + (IF IsWarning(severity) THEN 1 ELSE 0)
    IN  IF tw.skip THEN tw
        ELSE [warnings_count |-> count,
              errors_count |-> tw.errors_count + (IF IsError(severity) THEN 1 ELSE 0),
              skip |-> ~SuppressedIn(~quiet, severity, count) /\ long]

\* the for loop of the second service over the rest of a batch
RECURSIVE TwinLoop(_, _, _)
TwinLoop(tw, diagnostics, longs) ==
    IF diagnostics = <<>> THEN tw
    ELSE TwinLoop(TwinIteration(tw, Head(diagnostics), Head(longs)),
                  Tail(diagnostics), Tail(longs))

MaxWarningsExceededOffByOne ==
    IF max_warnings = <<>> THEN FALSE ELSE warnings_count >= max_warnings[1]

\* max_warnings_exceeded, lines 67-69
MaxWarningsExceeded ==
    IF max_warnings = <<>> THEN FALSE ELSE warnings_count > max_warnings[1]

\* GraphicalReportHandler::render_report of one diagnostic
Report(diagnostic, index) == [kind |-> "report", error |-> diagnostic, index |-> index]

\* format!("{minified_diagnostic:?}") of MinifiedFileError(path)
Minified(path) == [kind |-> "minified", path |-> path]

MinifiedOutputPushed(out, path) == Append(out, Minified(path))

\* run, line 122: output = format!("{minified_diagnostic:?}")
MinifiedOutput(out, path) == <<Minified(path)>>

PushStrInFront(out, err) == <<err>> \o out

\* run, line 126: output.push_str(&err)
PushStr(out, err) == Append(out, err)

LogEntry(diagnostic, outcome) ==
    [severity |-> diagnostic.severity, batch |-> Len(written) + 1, outcome |-> outcome]

\* rx_error.recv() returning Ok, line 91
Recv ==
    /\ dpc = "recv"
    /\ channel # <<>>
    /\ cur' = Head(channel)
    /\ channel' = Tail(channel)
    /\ output' = <<>>
    /\ dpc' = "for"
    /\ twin' = [twin EXCEPT !.skip = FALSE]
    /\ UNCHANGED <<pvars, senders, quiet, max_warnings, warnings_count, errors_count,
                   written, log, result>>

\* one iteration of the for loop, lines 93-127; long says whether the
\* rendering of the diagnostic has a line of 400 characters or more
Diagnostic ==
    LET diagnostic == Head(cur.diagnostics)
        severity == diagnostic.severity
        count == warnings_count + (IF IsWarning(severity) THEN 1 ELSE 0)
        rest == Tail(cur.diagnostics)
    IN
    /\ dpc = "for"
    /\ cur.diagnostics # <<>>
    /\ warnings_count' = count
    /\ errors_count' = errors_count + (IF IsError(severity) THEN 1 ELSE 0)
    /\ \E long \in BOOLEAN :
          IF Suppressed(severity, count)
          THEN /\ cur' = [cur EXCEPT !.diagnostics = rest]
               /\ log' = Append(log, LogEntry(diagnostic, "suppressed"))
               /\ twin' = TwinIteration(twin, diagnostic, long)
               /\ UNCHANGED output
          ELSE IF long
          THEN /\ output' = MinifiedOutput(output, cur.path)
               /\ cur' = [cur EXCEPT !.diagnostics = <<>>]
               /\ log' = log \o <<LogEntry(diagnostic, "minified")>>
                             \o [i \in 1..Len(rest) |-> LogEntry(rest[i], "skipped")]
               /\ \E longs \in [1..Len(rest) -> BOOLEAN] :
                     twin' = TwinLoop(TwinIteration(twin, diagnostic, long), rest, longs)
          ELSE /\ output' = PushStr(output, Report(diagnostic, Len(log) + 1))
               /\ cur' = [cur EXCEPT !.diagnostics = rest]
               /\ log' = Append(log, LogEntry(diagnostic, "rendered"))
               /\ twin' = TwinIteration(twin, diagnostic, long)
    /\ UNCHANGED <<pvars, channel, senders, quiet, max_warnings, dpc, written, result>>

\* buf_writer.write_all(output), line 128
WriteAll ==
    /\ dpc = "for"
    /\ cur.diagnostics = <<>>
    /\ written' = Append(written, output)
    /\ dpc' = "recv"
    /\ UNCHANGED <<pvars, channel, senders, quiet, max_warnings, warnings_count,
                   errors_count, cur, output, log, twin, result>>

RecvErrOnceDropped == ~senders

\* rx_error.recv() returns Err, line 91: no sender is left and no batch is
\* pending
RecvErr == channel = <<>> /\ ~senders

\* the while let loop ends and the writer is flushed, line 131
Flush ==
    /\ dpc = "recv"
    /\ RecvErr
    /\ dpc' = "flushed"
    /\ UNCHANGED <<pvars, channel, senders, quiet, max_warnings, warnings_count,
                   errors_count, cur, output, written, log, twin, result>>

\* LintRunner::run after diagnostic_service.run returned: the LintResult
LintResult ==
    /\ dpc = "flushed"
    /\ result' = <<[number_of_warnings |-> warnings_count,
                    number_of_errors |-> errors_count,
                    max_warnings_exceeded |-> MaxWarningsExceeded]>>
    /\ dpc' = "done"
    /\ UNCHANGED <<pvars, channel, senders, quiet, max_warnings, warnings_count,
                   errors_count, cur, output, written, log, twin>>

(***************************************************************************)
(* The senders of the aggregator's own specification: any batches          *)
(***************************************************************************)
MaxDiagnostics == 3

RECURSIVE SumLen(_)
SumLen(batches) ==
    IF batches = <<>> THEN 0
    ELSE Len(Head(batches).diagnostics) + SumLen(Tail(batches))

BatchesOfLen(n) ==
    { WrapDiagnostics(A, [i \in 1..n |-> [severity |-> sev[i], file |-> A, origin |-> "lint"]]) :
        sev \in [1..n -> Severities] }

\* tx_error.send(diagnostics) by some sender
SendBatch ==
    /\ senders
    /\ \E n \in 1..(MaxDiagnostics - SumLen(sent)) :
         \E batch \in BatchesOfLen(n) :
            /\ channel' = Append(channel, batch)
            /\ sent' = Append(sent, batch)
    /\ UNCHANGED <<inputs, disk, writes, tasks, module_map, cache_state, lock, waiters,
                   next_arc, cache_state_lock, number_of_files_in_node_modules, parses,
                   semantics, lints, dvars>>

\* the last DiagnosticSender is dropped
DropSenders ==
    /\ senders
    /\ senders' = FALSE
    /\ UNCHANGED <<pvars, channel, quiet, max_warnings, warnings_count, errors_count,
                   dpc, cur, output, written, log, twin, result>>

PipelineIdle ==
    /\ entries = <<>>
    /\ module_requests = Requests({}, {}, {}, {})
    /\ syntax_errors = {}
    /\ semantic_errors = {}
    /\ fix = FALSE
    /\ disk = [f \in Files |-> "original"]
    /\ tasks = <<>>
    /\ module_map = <<>>
    /\ cache_state = <<>>
    /\ cache_state_lock = 0
    /\ lock = <<>>
    /\ waiters = <<>>
    /\ next_arc = 1
    /\ number_of_files_in_node_modules = 0
    /\ parses = <<>>
    /\ writes = <<>>
    /\ semantics = <<>>
    /\ lints = <<>>
    /\ sent = <<>>
    /\ channel = <<>>

\* DiagnosticService::default().with_quiet(..).with_max_warnings(..)
DiagInit ==
    /\ PipelineIdle
    /\ senders = TRUE
    /\ quiet \in BOOLEAN
    /\ max_warnings \in {<<>>} \cup {<<n>> : n \in 0..(MaxDiagnostics - 1)}
    /\ warnings_count = 0
    /\ errors_count = 0
    /\ dpc = "recv"
    /\ cur = <<>>
    /\ output = <<>>
    /\ written = <<>>
    /\ log = <<>>
    /\ twin = [warnings_count |-> 0, errors_count |-> 0, skip |-> FALSE]
    /\ result = <<>>

DiagNext ==
    \/ SendBatch
    \/ DropSenders
    \/ Recv
    \/ Diagnostic
    \/ WriteAll
    \/ Flush
    \/ LintResult

SpecDiag == DiagInit /\ [][DiagNext]_vars

(***************************************************************************)
(* The run: LintService::new, then run_path for every entry, concurrently  *)
(***************************************************************************)
\* The module graphs explored: a cycle, a shared import, a chain, and a
\* vendored dependency with an unresolvable and an unsupported import.
Cycle == Requests({B}, {A}, {}, {})
Shared == Requests({C}, {C}, {}, {})
Chain == Requests({B}, {C}, {}, {})
Vendored == Requests({M, Bare}, {}, {}, {C, X})

VendoredShared == Requests({M}, {M}, {}, {})

Graphs == {Cycle, Shared, Chain, Vendored, VendoredShared}

EntryLists == { <<A>>, <<B>>, <<A, B>>, <<Cwd \o A, B>>, <<A, X>>, <<A, B, C>> }

SyntaxErrorSets == { {}, {B}, {C}, {M} }

SemanticErrorSets == { {}, {A} }

PipelineStart ==
    /\ disk = [f \in Files |-> "original"]
    /\ tasks = [i \in 1..Len(entries) |-> NewTask(entries[i], 0)]
    /\ module_map = <<>>
    /\ cache_state = <<>>
    /\ cache_state_lock = 0
    /\ lock = <<>>
    /\ waiters = <<>>
    /\ next_arc = 1
    /\ number_of_files_in_node_modules = 0
    /\ parses = <<>>
    /\ writes = <<>>
    /\ semantics = <<>>
    /\ lints = <<>>
    /\ sent = <<>>
    /\ channel = <<>>

DiagIdle ==
    /\ senders = TRUE
    /\ quiet = FALSE
    /\ max_warnings = <<>>
    /\ warnings_count = 0
    /\ errors_count = 0
    /\ dpc = "recv"
    /\ cur = <<>>
    /\ output = <<>>
    /\ written = <<>>
    /\ log = <<>>
    /\ twin = [warnings_count |-> 0, errors_count |-> 0, skip |-> FALSE]
    /\ result = <<>>

PipelineInit ==
    /\ entries \in EntryLists
    /\ module_requests \in Graphs
    /\ syntax_errors \in SyntaxErrorSets
    /\ semantic_errors \in (IF syntax_errors = {} THEN SemanticErrorSets ELSE { {} })
    /\ fix \in BOOLEAN
    /\ PipelineStart

Init == PipelineInit /\ DiagIdle

Step(t) ==
    \/ ProcessPath(t)
    \/ InitEntry(t)
    \/ InitWait(t)
    \/ SpuriousWakeup(t)
    \/ InitStore(t)
    \/ Parse(t)
    \/ UpdateCacheState(t)
    \/ \E specifier \in Specifiers : Fanout(t, specifier)
    \/ Analyze(t)
    \/ Send(t)

Next == \E t \in TaskIds : Step(t)

Spec == Init /\ [][Next]_vars

\* Every runnable task is eventually scheduled by the worker pool; a spurious
\* wake-up is never owed.
MaxTasks == 7

Scheduled(t) ==
    /\ t \in TaskIds
    /\ \/ ProcessPath(t)
       \/ InitEntry(t)
       \/ InitWait(t)
       \/ InitStore(t)
       \/ Parse(t)
       \/ UpdateCacheState(t)
       \/ \E specifier \in Specifiers : Fanout(t, specifier)
       \/ Analyze(t)
       \/ Send(t)

\* The runs whose progress is checked: two or three tasks meet at one path.
FairInit ==
    /\ entries \in { <<A, B>>, <<A, B, C>> }
    /\ module_requests \in {Cycle, Shared}
    /\ syntax_errors \in { {}, {C} }
    /\ semantic_errors = {}
    /\ fix = FALSE
    /\ PipelineStart
    /\ DiagIdle

FairSpec == FairInit /\ [][Next]_vars /\ \A t \in 1..MaxTasks : WF_vars(Scheduled(t))

(***************************************************************************)
(* Properties                                                              *)
(***************************************************************************)
AllDone == \A t \in TaskIds : tasks[t].pc = "done"

\* No task can take a step, except by waking up spuriously.
Quiescent ==
    \A t \in TaskIds :
        \/ tasks[t].pc \in {"done", "asleep"}
        \/ tasks[t].pc = "fanout" /\ tasks[t].todo = {} /\ ~Joined(t)

InInitCacheState(t) ==
    t \in TaskIds /\ tasks[t].pc \in {"init_entry", "init_wait", "asleep", "init_store"}

BatchesFor(path) == Cardinality({i \in 1..Len(sent) : sent[i].path = path})

ParsesOf(file) == Count(parses, file) + Count(parses, Cwd \o file)

RelativeEntries == \A i \in 1..Len(entries) : ~IsAbsolute(entries[i])

IsCycle == B \in module_requests[A] /\ A \in module_requests[B]

\* C1: for every path, the parse/semantic/lint pipeline runs at most once and
\* at most one diagnostic batch for the path is sent.
C1_AtMostOnce ==
    \A path \in DOMAIN parses :
        /\ parses[path] <= 1
        /\ Count(lints, path) <= 1
        /\ BatchesFor(path) <= 1

\* C2: once the module map holds a descriptor for a path, that descriptor is
\* never replaced by another one.
C2_DescriptorNeverChanges ==
    [][\A path \in DOMAIN module_map :
          path \in DOMAIN module_map' /\ module_map'[path] = module_map[path]]_vars

\* C3: with A importing B and B importing A (both parse), the run comes to rest
\* only when every task has returned, and then A and B have each been
\* processed exactly once.
C3_CycleProcessedOnce ==
    (IsCycle /\ syntax_errors = {} /\ RelativeEntries /\ Quiescent)
        => AllDone /\ ParsesOf(A) = 1 /\ ParsesOf(B) = 1

\* C4: no task is left asleep in init_cache_state when nothing else can run:
\* every task that waits on a path's condition variable is woken and returns.
C4_NoTaskWaitsForever ==
    Quiescent => \A t \in TaskIds : ~InInitCacheState(t)

\* C5: after a task returned early with the parse errors of its file, the run
\* never comes to rest with a process_path call that has not returned.
C5_ParseErrorRecoverable ==
    (Quiescent /\ \E t \in TaskIds :
                    tasks[t].pc = "done" /\ FileOf(tasks[t].path) \in syntax_errors
                    /\ Count(parses, tasks[t].path) > 0)
        => AllDone

\* The files a file's descriptor leads to: the resolved targets of its module
\* requests, none when it is unsupported or does not parse.
Targets(file) ==
    IF file \in syntax_errors \/ ~SourceTypeFromPath(file)
    THEN {}
    ELSE { FileOf(Resolve(Parent(Canonicalize(file)), specifier)[1]) :
             specifier \in { r \in module_requests[file] :
                                Resolve(Parent(Canonicalize(file)), r) # <<>> } }

RECURSIVE Closure(_)
Closure(files) ==
    LET more == files \cup UNION { Targets(f) : f \in files }
    IN  IF more = files THEN files ELSE Closure(more)

\* The supported files reachable from an entry path.
ReachableFrom(entry) == { f \in Closure({FileOf(entry)}) : SourceTypeFromPath(f) }

\* A file's descriptor is in the module map, or its parse failure was sent.
Processed(file) ==
    \/ \E path \in DOMAIN module_map : FileOf(path) = file
    \/ \E i \in 1..Len(sent) : \E j \in 1..Len(sent[i].diagnostics) :
          sent[i].diagnostics[j].origin = "parse" /\ sent[i].diagnostics[j].file = file

RECURSIVE TriggeredBy(_, _)
TriggeredBy(u, t) ==
    /\ tasks[u].parent # 0
    /\ tasks[u].parent = t \/ TriggeredBy(tasks[u].parent, t)

EntryTasks == {t \in TaskIds : tasks[t].parent = 0}

\* C6 (as stated): when run_path(entry) has returned, every process_path call it
\* transitively triggered has returned and every supported file reachable from
\* the entry has been processed.
C6_RunPathProcessedAll ==
    \A t \in EntryTasks :
        tasks[t].pc = "done" =>
            /\ \A u \in TaskIds : TriggeredBy(u, t) => tasks[u].pc = "done"
            /\ \A f \in ReachableFrom(tasks[t].path) : Processed(f)

\* C6 (amended): when run_path(entry) has returned, every process_path call it
\* transitively triggered has returned; when every run_path call of the run
\* has returned, every supported file reachable from an entry has been
\* processed.
C6_RunProcessedAll ==
    /\ \A t \in EntryTasks :
          tasks[t].pc = "done" =>
              \A u \in TaskIds : TriggeredBy(u, t) => tasks[u].pc = "done"
    /\ AllDone =>
          \A t \in EntryTasks : \A f \in ReachableFrom(tasks[t].path) : Processed(f)

\* Two concurrent entries have returned after a fan-out over a chain of imports.
C6_Witness ==
    /\ AllDone
    /\ Cardinality(EntryTasks) = 2
    /\ \E t \in EntryTasks :
          /\ Cardinality(ReachableFrom(tasks[t].path)) = 3
          /\ \E u \in TaskIds : \E v \in TaskIds :
                tasks[u].parent = t /\ tasks[v].parent = u /\ tasks[v].pc = "done"
                /\ Count(parses, tasks[v].path) > 0

\* The supported files reachable from the entries.
ReachableFiles == UNION { ReachableFrom(entries[i]) : i \in 1..Len(entries) }

\* What process_source returns for a file read from the unchanged disk.
MessagesOf(file) ==
    IF file \in syntax_errors THEN ParseErrors(file)
    ELSE IF InNodeModules(file) THEN <<>>
    ELSE IF file \in semantic_errors THEN SemanticErrors(file)
    ELSE LinterRun(file, "original")

\* The batch of a file, none when it has no message.
BatchesOf(file) ==
    IF MessagesOf(file) = <<>> THEN {}
    ELSE { WrapDiagnostics(file, [i \in 1..Len(MessagesOf(file)) |->
                                    MessagesOf(file)[i].error]) }

\* C18: with fix mode off, every finished run over the same entries and the
\* same files has sent the same multiset of diagnostics, whatever the
\* interleaving: one batch for each reachable file that has messages, and
\* nothing else.
C18_SameDiagnosticsEveryRun ==
    (AllDone /\ ~fix /\ RelativeEntries) =>
        /\ \A i \in 1..Len(sent) :
              sent[i].path \in ReachableFiles /\ sent[i] \in BatchesOf(sent[i].path)
        /\ \A file \in ReachableFiles :
              BatchesFor(file) = Cardinality(BatchesOf(file))

(***************************************************************************)
(* LintRunner::run: the pipeline and the aggregator on one channel          *)
(***************************************************************************)
NoImports == Requests({}, {}, {}, {})

RunEntryLists == { <<A>>, <<A, B>>, <<A, X>>, <<A, B, X>> }

\* DiagnosticService::default().with_quiet(..).with_max_warnings(..), then
\* the linter thread is spawned over the entries
RunInit ==
    /\ entries \in RunEntryLists
    /\ module_requests \in {NoImports, Cycle}
    /\ syntax_errors = {}
    /\ semantic_errors = {}
    /\ fix = FALSE
    /\ PipelineStart
    /\ senders = TRUE
    /\ quiet \in BOOLEAN
    /\ max_warnings \in { <<>>, <<0>>, <<1>> }
    /\ warnings_count = 0
    /\ errors_count = 0
    /\ dpc = "recv"
    /\ cur = <<>>
    /\ output = <<>>
    /\ written = <<>>
    /\ log = <<>>
    /\ twin = [warnings_count |-> 0, errors_count |-> 0, skip |-> FALSE]
    /\ result = <<>>

\* the spawned closure ends once every run_path call has returned, and
\* tx_error is dropped with it
RunEnds == AllDone /\ DropSenders

RunNext ==
    \/ \E t \in TaskIds : Step(t)
    \/ RunEnds
    \/ Recv
    \/ Diagnostic
    \/ WriteAll
    \/ Flush
    \/ LintResult

SpecRun == RunInit /\ [][RunNext]_vars

SupportedEntries == {i \in 1..Len(entries) : SourceTypeFromPath(entries[i])}

\* C17: when the entries have no import edges and each supported entry holds
\* exactly one warning and no error, the run ends with warnings_count equal to
\* the number of supported entries and errors_count equal to 0.
C17_OneWarningPerEntry ==
    (dpc = "done" /\ module_requests = NoImports)
        => /\ warnings_count = Cardinality(SupportedEntries)
           /\ errors_count = 0
           /\ result[1].number_of_warnings = Cardinality(SupportedEntries)
           /\ result[1].number_of_errors = 0

\* The run over a.js, b.js and foo.asdf, without imports, ended with two
\* warnings counted.
C17_Witness ==
    /\ dpc = "done"
    /\ module_requests = NoImports
    /\ entries = <<A, B, X>>
    /\ warnings_count = 2
    /\ errors_count = 0

\* The task read and parsed its file.
Parsed(t) == tasks[t].source_text # ""

\* The task is past process_source: its messages are what process_source
\* returned (after the fixer, once it is done).
Returned(t) == Parsed(t) /\ tasks[t].pc \in {"send", "done"}

\* Every supported file the file's module requests resolve to is processed.
TargetsProcessed(file) ==
    \A f \in Targets(file) : SourceTypeFromPath(f) => Processed(f)

\* C14: no diagnostic batch is ever sent for a path with a node_modules
\* component.
C14_NoBatchForNodeModules ==
    \A i \in 1..Len(sent) : \A j \in 1..Len(sent[i].path) :
        sent[i].path[j] # "node_modules"

\* C15: when process_source has returned for a file under node_modules that
\* parsed, the file's descriptor is in the module map, every process_path call
\* of its fan-out has returned and its resolved targets are processed, and
\* neither the semantic build nor the rule engine ran for it.
C15_VendorFileFollowedNotLinted ==
    \A t \in TaskIds :
        (FileOf(tasks[t].path) = M /\ M \notin syntax_errors /\ Returned(t)) =>
            /\ tasks[t].path \in DOMAIN module_map
            /\ tasks[t].todo = {}
            /\ \A u \in Children(t) : tasks[u].pc = "done"
            /\ TargetsProcessed(M)
            /\ Count(semantics, tasks[t].path) = 0
            /\ Count(lints, tasks[t].path) = 0
            /\ tasks[t].messages = <<>>
            /\ number_of_files_in_node_modules >= 1

\* node_modules/m.js was parsed and short-circuited after its import c.js was
\* processed by a call of its fan-out.
C15_Witness ==
    \E t \in TaskIds :
        /\ tasks[t].path = M
        /\ tasks[t].pc = "done"
        /\ M \in DOMAIN module_map
        /\ number_of_files_in_node_modules = 1
        /\ \E u \in Children(t) : tasks[u].path = C /\ Parsed(u)

\* C16: a process_path call on a path with an unsupported extension only
\* returns: it changes no other task, no map, no file, no counter and sends
\* nothing, and the path never gets a gate entry, a cache entry, a parse or a
\* batch.
C16_UnsupportedIsNoOp ==
    [][\A t \in TaskIds :
          ~SourceTypeFromPath(tasks[t].path) =>
             /\ tasks'[t].pc \in {"process_path", "done"}
             /\ tasks[t].path \notin DOMAIN cache_state'
             /\ tasks[t].path \notin DOMAIN module_map'
             /\ Count(parses', tasks[t].path) = 0
             /\ \A i \in 1..Len(sent') : sent'[i].path # tasks[t].path
             /\ tasks'[t] # tasks[t] =>
                   /\ tasks' = [tasks EXCEPT ![t].pc = "done"]
                   /\ UNCHANGED <<module_map, cache_state, lock, waiters, next_arc,
                                  disk, writes, parses, semantics, lints,
                                  number_of_files_in_node_modules, channel, sent,
                                  warnings_count, errors_count>>]_vars

\* The run a.js, foo.asdf ended: the call on foo.asdf returned and the only
\* batch sent is the one of a.js.
C16_Witness ==
    /\ AllDone
    /\ \E t \in TaskIds : tasks[t].path = X
    /\ Len(sent) = 1
    /\ sent[1].path = A

\* C19: when process_source has returned for a file the parser reports errors
\* for, the task's messages are exactly the parse errors, no descriptor of the
\* path is in the module map, the task made no process_path call, and neither
\* the semantic build nor the rule engine ran for the path.
C19_ParseFailureShortCircuits ==
    \A t \in TaskIds :
        (FileOf(tasks[t].path) \in syntax_errors /\ Returned(t)) =>
            /\ tasks[t].messages = ParseErrors(tasks[t].path)
            /\ tasks[t].path \notin DOMAIN module_map
            /\ Children(t) = {}
            /\ Count(semantics, tasks[t].path) = 0
            /\ Count(lints, tasks[t].path) = 0
            /\ tasks[t].pc = "done" =>
                  \E i \in 1..Len(sent) :
                      sent[i] = WrapDiagnostics(tasks[t].path,
                                                <<ParseErrors(tasks[t].path)[1].error>>)

\* A file that imports another one failed to parse and its call returned
\* after sending one batch.
C19_Witness ==
    \E t \in TaskIds :
        /\ FileOf(tasks[t].path) \in syntax_errors
        /\ module_requests[FileOf(tasks[t].path)] # {}
        /\ tasks[t].pc = "done"
        /\ Parsed(t)
        /\ BatchesFor(tasks[t].path) = 1

\* C20: when process_source has returned for a file whose semantic build
\* reports errors, the task's messages are exactly those errors, the rule
\* engine did not run for the path, the descriptor of the path is in the
\* module map, and every process_path call of the fan-out has returned with
\* the file's resolved targets processed.
C20_SemanticFailureShortCircuits ==
    \A t \in TaskIds :
        (FileOf(tasks[t].path) \in semantic_errors /\ Returned(t)) =>
            /\ tasks[t].messages = SemanticErrors(tasks[t].path)
            /\ Count(lints, tasks[t].path) = 0
            /\ Count(semantics, tasks[t].path) >= 1
            /\ tasks[t].path \in DOMAIN module_map
            /\ tasks[t].todo = {}
            /\ \A u \in Children(t) : tasks[u].pc = "done"
            /\ TargetsProcessed(FileOf(tasks[t].path))

\* The semantic build of a.js failed after the call made for its import
\* returned, and the call on a.js returned after sending one batch.
C20_Witness ==
    \E t \in TaskIds :
        /\ FileOf(tasks[t].path) \in semantic_errors
        /\ tasks[t].pc = "done"
        /\ Children(t) # {}
        /\ BatchesFor(tasks[t].path) = 1
        /\ sent[1].diagnostics[1].origin = "semantic"

\* Some task has left init_cache_state for the path: it parses, or has parsed.
GateTaken(path) ==
    \E u \in TaskIds :
        /\ tasks[u].path = path
        /\ tasks[u].pc \in {"parse", "update", "fanout", "send"} \/ Parsed(u)

\* C21: whenever a path's gate state goes from PendingStore back to
\* ReadyToConstruct the path's descriptor is already in the module map, and a
\* task that passes the wait of init_cache_state after another task went
\* through the gate finds the descriptor present.
C21_StoredBeforeReady ==
    [][/\ \A t \in TaskIds :
            (tasks[t].pc = "init_store" /\ GateTaken(tasks[t].path))
                => tasks[t].path \in DOMAIN module_map
       /\ \A path \in DOMAIN cache_state :
            (IsPendingStore(cache_state[path]) /\ cache_state'[path] = ReadyToConstruct)
                => path \in DOMAIN module_map]_vars

\* A task that slept on the gate of a path is past the wait with the
\* descriptor present, after the task that built it went through the gate.
C21_Witness ==
    \E t \in TaskIds : \E u \in TaskIds :
        /\ t # u
        /\ tasks[t].path = tasks[u].path
        /\ tasks[t].pc = "init_store"
        /\ tasks[u].pc \in {"fanout", "send", "done"} /\ Parsed(u)
        /\ tasks[t].path \in DOMAIN module_map
        /\ cache_state[tasks[t].path] = ReadyToConstruct

\* The path's Mutex is free, or held by a task of the same path that is in
\* init_cache_state past its wait and can run.
EntryLockAvailable(path) ==
    \/ lock[path] = 0
    \/ /\ lock[path] \in TaskIds
       /\ tasks[lock[path]].path = path
       /\ tasks[lock[path]].pc = "init_store"
       /\ ENABLED InitStore(lock[path])

\* C22: a task in init_cache_state or update_cache_state for a path is never
\* held up by the tasks blocked on other paths: unless it sleeps on its own
\* path's condition variable it can take its next step, or it waits for its
\* own path's Mutex, whose holder can run.
C22_WaitingIsPerPath ==
    \A t \in TaskIds :
        /\ tasks[t].pc = "init_entry" => ENABLED InitEntry(t)
        /\ tasks[t].pc = "init_wait" =>
              /\ EntryLockAvailable(tasks[t].path)
              /\ lock[tasks[t].path] = 0 => ENABLED InitWait(t)
        /\ tasks[t].pc = "init_store" => ENABLED InitStore(t)
        /\ tasks[t].pc = "update" =>
              /\ tasks[t].path \in DOMAIN cache_state
              /\ EntryLockAvailable(tasks[t].path)
              /\ lock[tasks[t].path] = 0 => ENABLED UpdateCacheState(t)

\* Nothing can run any more: a task sleeps for ever on the gate of one path,
\* while a task of another path, started by the same run, went through
\* init_cache_state and update_cache_state and returned.
C22_Witness ==
    /\ Quiescent
    /\ \E t \in TaskIds : \E u \in TaskIds :
          /\ tasks[t].pc = "asleep"
          /\ tasks[u].path # tasks[t].path
          /\ tasks[u].pc = "done"
          /\ Parsed(u)
          /\ cache_state[tasks[u].path] = ReadyToConstruct

\* C24: in fix mode no file path is written by two tasks during one run.
C24_WritesDisjoint ==
    fix => \A path \in DOMAIN writes : writes[path] <= 1

\* The task appended by a step of the fan-out, if any.
Spawned == IF Len(tasks') > Len(tasks) THEN {tasks'[Len(tasks')]} ELSE {}

\* C25: a file has one identity: the module map never holds two keys for one
\* file, and the fan-out filter tests the key the descriptor is stored under,
\* so it never lets through a target whose descriptor is in the module map.
C25_OneIdentityPerFile ==
    [][/\ \A k1 \in DOMAIN module_map' : \A k2 \in DOMAIN module_map' :
             FileOf(k1) = FileOf(k2) => k1 = k2
       /\ \A task \in Spawned : \A key \in DOMAIN module_map :
             FileOf(key) # FileOf(task.path)]_vars

\* C28: a process_path call on a path that is a key of the module map only
\* returns: the step changes no other task, no gate entry, no descriptor, no
\* counter and no file, sends nothing and reads (parses) nothing.
C28_CachedPathReturns ==
    [][\A t \in TaskIds :
          (tasks[t].pc = "process_path" /\ tasks[t].path \in DOMAIN module_map
             /\ tasks'[t] # tasks[t]) =>
                /\ tasks' = [tasks EXCEPT ![t].pc = "done"]
                /\ UNCHANGED <<module_map, cache_state, lock, waiters, next_arc,
                               disk, writes, parses, semantics, lints,
                               number_of_files_in_node_modules, channel, sent>>]_vars

\* A call on a supported path returned without reading the file, because
\* another call had stored the path's descriptor.
C28_Witness ==
    \E t \in TaskIds :
        /\ SourceTypeFromPath(tasks[t].path)
        /\ tasks[t].pc = "done"
        /\ ~Parsed(t)
        /\ tasks[t].path \in DOMAIN module_map
        /\ Count(parses, tasks[t].path) = 1

\* The task leaves init_cache_state in this step.
LeavesInit(t) == tasks[t].pc = "init_store" /\ tasks'[t].pc = "parse"

\* C29: when init_cache_state, past its wait, finds no descriptor for the
\* path, ReadyToConstruct becomes PendingStore(1) and PendingStore(n) becomes
\* PendingStore(n+1); when it finds the descriptor the state is unchanged.
C29_PendingCountIncremented ==
    [][\A t \in TaskIds : LeavesInit(t) =>
          LET old == cache_state[tasks[t].path]
              new == cache_state'[tasks[t].path]
          IN  IF tasks[t].path \in DOMAIN module_map
              THEN new = old
              ELSE \/ old = <<"ReadyToConstruct">> /\ new = <<"PendingStore", 1>>
                   \/ old[1] = "PendingStore" /\ new = <<"PendingStore", old[2] + 1>>]_vars

\* One task went through the gate and found no descriptor (the state became
\* PendingStore(1)); after it stored, another one went through and left the
\* state as it was.
C29_Witness ==
    \E t \in TaskIds : \E u \in TaskIds :
        /\ t # u
        /\ tasks[t].path = tasks[u].path
        /\ tasks[t].pc = "fanout" /\ Parsed(t)
        /\ tasks[u].pc = "parse"
        /\ cache_state[tasks[t].path] = ReadyToConstruct

\* C30: when a task leaves init_cache_state having observed the state
\* ReadyToConstruct while other tasks sleep on the path's condition
\* variable, exactly one of them is woken.
C30_WakesOneWaiter ==
    [][\A t \in TaskIds :
          (LeavesInit(t) /\ cache_state[tasks[t].path] = ReadyToConstruct
             /\ waiters[tasks[t].path] # {}) =>
                \E w \in waiters[tasks[t].path] :
                    /\ waiters'[tasks[t].path] = waiters[tasks[t].path] \ {w}
                    /\ tasks[w].pc = "asleep"
                    /\ tasks'[w].pc = "init_wait"]_vars

\* Three tasks met at one path: one stored the descriptor, one woke, found
\* it and went on, and the third is awake again.
C30_Witness ==
    \E t \in TaskIds : \E u \in TaskIds : \E w \in TaskIds :
        /\ t # u /\ u # w /\ t # w
        /\ tasks[t].path = tasks[u].path /\ tasks[u].path = tasks[w].path
        /\ Parsed(t) /\ Count(parses, tasks[t].path) = 1
        /\ tasks[u].pc = "parse"
        /\ tasks[w].pc = "init_wait"
        /\ waiters[tasks[t].path] = {}

\* The task leaves update_cache_state in this step.
LeavesUpdate(t) == tasks[t].pc = "update" /\ tasks'[t].pc = "fanout"

\* Exactly one of the tasks asleep on the path is made runnable, if any is.
OneWoken(path) ==
    IF waiters[path] = {}
    THEN waiters'[path] = {}
    ELSE \E w \in waiters[path] :
            /\ waiters'[path] = waiters[path] \ {w}
            /\ tasks[w].pc = "asleep"
            /\ tasks'[w].pc = "init_wait"

\* C31: update_cache_state turns PendingStore(1) into ReadyToConstruct and
\* wakes exactly one task asleep on the path; it turns PendingStore(n), n > 1,
\* into PendingStore(n-1) and wakes nobody; it leaves ReadyToConstruct as it
\* is and wakes nobody.  It runs with the path's descriptor in the module map.
C31_PendingCountDecremented ==
    [][\A t \in TaskIds : LeavesUpdate(t) =>
          LET path == tasks[t].path
              old == cache_state[path]
              new == cache_state'[path]
          IN  /\ path \in DOMAIN module_map
              /\ old = <<"PendingStore", 1>> =>
                    new = <<"ReadyToConstruct">> /\ OneWoken(path)
              /\ (old[1] = "PendingStore" /\ old[2] > 1) =>
                    new = <<"PendingStore", old[2] - 1>> /\ waiters'[path] = waiters[path]
              /\ old = <<"ReadyToConstruct">> =>
                    new = old /\ waiters'[path] = waiters[path]]_vars

\* The task that stored a descriptor has reset the gate of its path and is
\* fanning out, and the task that slept on the gate is awake.
C31_Witness ==
    \E t \in TaskIds : \E u \in TaskIds :
        /\ tasks[t].path = tasks[u].path
        /\ tasks[t].pc = "fanout"
        /\ tasks[u].pc = "init_wait"
        /\ Count(parses, tasks[t].path) = 1
        /\ cache_state[tasks[t].path] = ReadyToConstruct
        /\ waiters[tasks[t].path] = {}
        /\ lock[tasks[t].path] = 0

\* C33: a gate entry in state PendingStore(n) has n = 1.
C33_PendingCountIsOne ==
    \A path \in DOMAIN cache_state :
        cache_state[path][1] = "PendingStore" => cache_state[path][2] = 1

\* A path is being built by one task while two others sleep on its gate.
C33_Witness ==
    \E path \in DOMAIN cache_state :
        /\ cache_state[path] = <<"PendingStore", 1>>
        /\ Cardinality(waiters[path]) = 2
        /\ \E t \in TaskIds : tasks[t].path = path /\ tasks[t].pc = "parse"

\* C34: when every task of the run has returned, every gate entry is in state
\* ReadyToConstruct.
C34_GatesReadyAtEnd ==
    AllDone => \A path \in DOMAIN cache_state : cache_state[path] = ReadyToConstruct

\* C35: while a task is inside init_cache_state, the gate of every call that
\* (transitively) made this call is completed: the caller's descriptor is in
\* the module map and the caller's gate entry is ReadyToConstruct.
C35_OwnGateCompletedFirst ==
    \A t \in TaskIds : \A a \in TaskIds :
        (InInitCacheState(t) /\ TriggeredBy(t, a)) =>
            /\ tasks[a].pc = "fanout"
            /\ tasks[a].path \in DOMAIN module_map
            /\ cache_state[tasks[a].path] = ReadyToConstruct

\* A call made by the fan-out of a file sleeps on the gate of an import
\* target that another task is building.
C35_Witness ==
    \E t \in TaskIds : \E a \in TaskIds :
        /\ tasks[t].parent = a
        /\ tasks[t].pc = "asleep"
        /\ cache_state[tasks[t].path] = <<"PendingStore", 1>>
        /\ cache_state[tasks[a].path] = ReadyToConstruct

\* C36: when a task sends its batch (or returns without one), every
\* process_path call its fan-out made, and every call those made, has
\* returned, so their batches are already sent.
C36_BatchAfterFanout ==
    [][\A t \in TaskIds :
          (tasks[t].pc = "send" /\ tasks'[t].pc = "done") =>
              \A u \in TaskIds : TriggeredBy(u, t) => tasks[u].pc = "done"]_vars

\* The batch of an import target, sent by a call of the importer's fan-out,
\* precedes the batch of the importer.
C36_Witness ==
    \E t \in TaskIds : \E u \in TaskIds :
        /\ tasks[u].parent = t
        /\ tasks[t].pc = "done" /\ tasks[u].pc = "done"
        /\ Parsed(u)
        /\ tasks[t].path # tasks[u].path
        /\ \E i \in 1..Len(sent) : \E j \in 1..Len(sent) :
              i < j /\ sent[i].path = tasks[u].path /\ sent[j].path = tasks[t].path

\* The tasks that passed the cache-presence check of process_path for the path.
PassedCheck(path) ==
    {t \in TaskIds : /\ tasks[t].path = path
                     /\ tasks[t].pc # "process_path"
                     /\ tasks[t].pc = "done" => Parsed(t)}

\* C32: a path is built (read, parsed, inserted) at most as many times as
\* tasks passed the cache-presence check for it, each of them while no
\* descriptor of the path was stored; and a task that leaves the gate when the
\* descriptor is already cached still reads and parses the file itself.
C32_RedundantBuildsBounded ==
    [][/\ \A path \in DOMAIN parses' :
             parses'[path] <= Cardinality(PassedCheck(path))
       /\ \A t \in TaskIds :
             LET path == tasks[t].path IN
             /\ (tasks[t].pc = "process_path" /\ tasks'[t].pc # "process_path"
                    /\ path \in DOMAIN module_map) => tasks'[t].pc = "done"
             /\ (tasks[t].pc = "init_store" /\ tasks'[t].pc # "init_store"
                    /\ path \in DOMAIN module_map) => tasks'[t].pc = "parse"
             /\ (tasks[t].pc = "parse" /\ tasks'[t].pc # "parse"
                    /\ path \in DOMAIN module_map) =>
                   Count(parses', path) = Count(parses, path) + 1]_vars

\* Two tasks passed the check for one path and both built it: the second was
\* released from the gate with the descriptor cached.
C32_Witness ==
    \E path \in DOMAIN parses :
        /\ parses[path] = 2
        /\ Cardinality(PassedCheck(path)) = 2
        /\ AllDone

\* The files under node_modules that were traversed: their descriptor is in the
\* module map.
VendorFilesTraversed ==
    {f \in Files : InNodeModules(f) /\ \E key \in DOMAIN module_map : FileOf(key) = f}

\* C37: at the end of a run the vendor counter equals the number of distinct
\* files under node_modules that were traversed.
C37_VendorCounterCountsFiles ==
    AllDone => number_of_files_in_node_modules = Cardinality(VendorFilesTraversed)

(***************************************************************************)
(* Properties of DiagnosticService::run                                    *)
(***************************************************************************)
Iterated == {i \in 1..Len(log) : log[i].outcome # "skipped"}
Warnings == {i \in 1..Len(log) : IsWarning(log[i].severity)}
Errors == {i \in 1..Len(log) : IsError(log[i].severity)}
\* the diagnostics render_report was called for
Rendered == {i \in 1..Len(log) : log[i].outcome \in {"rendered", "minified"}}
WarningOrdinal(i) == Cardinality({j \in 1..i : IsWarning(log[j].severity)})

\* C7: in quiet mode every warning taken from a batch is counted and not
\* rendered, and every error taken from a batch is counted and rendered.
C7_QuietRendersErrorsOnly ==
    quiet =>
        /\ \A i \in Iterated \cap Warnings : i \notin Rendered
        /\ \A i \in Iterated \cap Errors : i \in Rendered
        /\ dpc = "for" \/ warnings_count = Cardinality(Iterated \cap Warnings)
        /\ dpc = "for" \/ errors_count = Cardinality(Iterated \cap Errors)

\* C8: with quiet mode off, an error taken from a batch is rendered, whatever
\* the warning count and the threshold are.
C8_ErrorsAlwaysRendered ==
    ~quiet => \A i \in Iterated \cap Errors : i \in Rendered

\* C9: with a threshold T, quiet mode off and W > T warnings received, at the
\* end of the run the warnings rendered are the first T that arrived and
\* warnings_count is W.
C9_FirstTWarningsRendered ==
    (dpc = "done" /\ ~quiet /\ max_warnings # <<>>
       /\ Cardinality(Warnings) > max_warnings[1])
        => /\ {WarningOrdinal(i) : i \in Warnings \cap Rendered} = 1..max_warnings[1]
           /\ warnings_count = Cardinality(Warnings)

\* C10: after the run, the max_warnings_exceeded flag of the result is true
\* exactly when a threshold is configured and warnings_count is above it.
C10_MaxWarningsExceeded ==
    dpc = "done" =>
        (result[1].max_warnings_exceeded
            <=> (max_warnings # <<>> /\ warnings_count > max_warnings[1]))

\* A run ended with more warnings counted than the threshold allows.
C10_Witness ==
    /\ dpc = "done"
    /\ max_warnings = <<1>>
    /\ warnings_count = 2
    /\ result[1].max_warnings_exceeded

\* C11: at the end of the run every diagnostic of every batch received has
\* been counted once in its counter, whether it was rendered, suppressed or
\* replaced by the minified-file notice.
C11_EveryDiagnosticCounted ==
    dpc = "done" =>
        /\ warnings_count = Cardinality(Warnings)
        /\ errors_count = Cardinality(Errors)

\* C13 as stated: one iteration of the loop adds one to warnings_count for a
\* warning and one to errors_count for every other diagnostic.
C13_NonWarningIsError ==
    [][Len(log') > Len(log) =>
         LET severity == Head(cur.diagnostics).severity IN
         /\ warnings_count' = warnings_count + (IF severity = "Warning" THEN 1 ELSE 0)
         /\ errors_count' = errors_count + (IF severity # "Warning" THEN 1 ELSE 0)]_vars

\* C13: one iteration of the loop adds one to warnings_count and nothing to
\* errors_count for a warning, one to errors_count and nothing to
\* warnings_count for an error or a diagnostic without severity, and changes
\* neither counter for any other severity (advice).
C13_Classification ==
    [][Len(log') > Len(log) =>
         LET severity == Head(cur.diagnostics).severity IN
         /\ warnings_count' = warnings_count + (IF severity = "Warning" THEN 1 ELSE 0)
         /\ errors_count' = errors_count
                              + (IF severity \in {"Error", "None"} THEN 1 ELSE 0)]_vars

\* A run over a warning, an error and an advice ended with one of each
\* counter and the advice counted nowhere.
C13_Witness ==
    /\ dpc = "done"
    /\ Len(log) = 3
    /\ Iterated = 1..3
    /\ {log[i].severity : i \in 1..3} = {"Warning", "Error", "Advice"}
    /\ warnings_count = 1
    /\ errors_count = 1

\* C12: fed the same batches, a service with quiet mode on and a service with
\* quiet mode off end the run with the same warnings_count and errors_count.
C12_QuietSameCounts ==
    dpc = "done" =>
        /\ twin.warnings_count = warnings_count
        /\ twin.errors_count = errors_count

\* Every rendering step the service can take next is disabled.
RunBlocked ==
    ~(ENABLED Recv \/ ENABLED Diagnostic \/ ENABLED WriteAll \/ ENABLED Flush
        \/ ENABLED LintResult)

\* C23: the service has left its receive loop only if every sender is dropped
\* and no batch is pending, and then every batch sent has been received, its
\* diagnostics taken by the loop and its output written; before it has
\* finished it is blocked only in recv, with a sender alive and no batch
\* pending.
C23_RunEndsWhenDisconnected ==
    /\ dpc \in {"flushed", "done"} =>
          /\ ~senders
          /\ channel = <<>>
          /\ Len(written) = Len(sent)
          /\ Len(log) = SumLen(sent)
          /\ \A b \in 1..Len(sent) :
                Cardinality({i \in 1..Len(log) : log[i].batch = b})
                    = Len(sent[b].diagnostics)
    /\ (dpc # "done" /\ RunBlocked) => (dpc = "recv" /\ senders /\ channel = <<>>)

\* Two batches were sent before the sender was dropped, and the run ended
\* after writing the output of both.
C23_Witness ==
    /\ dpc = "done"
    /\ Len(sent) = 2
    /\ Len(written) = 2

\* The number of diagnostics of the batches sent before the b-th one.
Offset(b) == SumLen(SubSeq(sent, 1, b - 1))

\* C26: the b-th output written holds renderings of diagnostics of the b-th
\* batch sent only, and holds them in the order of the batch's sequence.
C26_RenderedInOrder ==
    /\ Len(written) <= Len(sent)
    /\ \A b \in 1..Len(written) : \A k \in 1..Len(written[b]) :
          written[b][k].kind = "report" =>
             /\ written[b][k].index - Offset(b) \in 1..Len(sent[b].diagnostics)
             /\ written[b][k].error = sent[b].diagnostics[written[b][k].index - Offset(b)]
             /\ \A j \in 1..(k - 1) :
                   written[b][j].kind = "report"
                   /\ written[b][j].index < written[b][k].index

\* A batch of two diagnostics and then a batch of one were written, every
\* diagnostic rendered.
C26_Witness ==
    /\ Len(written) = 2
    /\ Len(written[1]) = 2
    /\ Len(written[2]) = 1
    /\ \A b \in 1..2 : \A k \in 1..Len(written[b]) : written[b][k].kind = "report"

\* C27: the output written for a batch in which a rendered diagnostic had a
\* line of 400 characters or more is exactly one minified-file notice for the
\* batch's file; the output of any other batch holds renderings only.
C27_MinifiedReplacesBatch ==
    \A b \in 1..Len(written) :
        IF \E i \in 1..Len(log) : log[i].batch = b /\ log[i].outcome = "minified"
        THEN written[b] = <<Minified(sent[b].path)>>
        ELSE \A k \in 1..Len(written[b]) : written[b][k].kind = "report"

\* The first diagnostic of a batch was rendered, the second one was
\* over-long, and the output written for the batch is the notice alone.
C27_Witness ==
    /\ Len(written) >= 1
    /\ Len(log) >= 2
    /\ log[1].outcome = "rendered"
    /\ log[2].outcome = "minified"
    /\ log[2].batch = 1
    /\ written[1] = <<Minified(A)>>

(***************************************************************************)
(* LintService::run_source: the caller hands in the source text of a path;  *)
(* the imports of the file are followed by process_path calls.              *)
(***************************************************************************)
SourceLists == { <<A>>, <<A, A>>, <<A, B>>, <<X>>, <<B, B>> }

SourceInit ==
    /\ entries \in SourceLists
    /\ module_requests \in {NoImports, Cycle, Shared}
    /\ syntax_errors \in { {}, {B} }
    /\ semantic_errors = {}
    /\ fix \in BOOLEAN
    /\ disk = [f \in Files |-> "original"]
    /\ tasks = [i \in 1..Len(entries) |-> NewSourceTask(entries[i])]
    /\ module_map = <<>>
    /\ cache_state = <<>>
    /\ cache_state_lock = 0
    /\ lock = <<>>
    /\ waiters = <<>>
    /\ next_arc = 1
    /\ number_of_files_in_node_modules = 0
    /\ parses = <<>>
    /\ writes = <<>>
    /\ semantics = <<>>
    /\ lints = <<>>
    /\ sent = <<>>
    /\ channel = <<>>
    /\ DiagIdle

SourceNext ==
    \E t \in TaskIds :
        \/ RunSource(t)
        \/ ReturnSource(t)
        \/ Step(t)

SpecSource == SourceInit /\ [][SourceNext]_vars

\* C38: a task that is about to call update_cache_state(path), whether it came
\* through process_path or through run_source, finds the gate entry of the
\* path, and no gate entry is ever removed.
C38_GateEntryExistsAtUpdate ==
    [][/\ \A t \in TaskIds :
             tasks'[t].pc = "update" => tasks'[t].path \in DOMAIN cache_state'
       /\ DOMAIN cache_state \subseteq DOMAIN cache_state']_vars

\* A run_source call has been through update_cache_state and a process_path
\* call of its fan-out is about to call it.
C38_Witness ==
    \E t \in TaskIds : \E u \in TaskIds :
        /\ tasks[t].call = "run_source" /\ tasks[t].pc = "fanout"
        /\ tasks[u].call = "process_path" /\ tasks[u].pc = "update"
        /\ tasks[t].path \in DOMAIN cache_state
        /\ tasks[u].path \in DOMAIN cache_state

====
